---- MODULE Spec2Model ----
(***************************************************************************)
(* Model of GCS_utils.py: a stateless client of a bucket-oriented object   *)
(* store.  Every function is a sequential procedure that checks the local  *)
(* file system, issues HTTP requests and inspects their status codes.  The *)
(* model keeps the local file system, the log of HTTP requests issued, and *)
(* the local variables and outcome of the function being executed.        *)
(* Strings (remote keys, folder paths) are sequences of one-character      *)
(* strings; a local path is the sequence of its components.               *)
(***************************************************************************)
EXTENDS Integers, Sequences, FiniteSets, TLC

VARIABLES
    fs,               \* local file system: [dirs, files], sets of local paths
    sep,              \* os.sep of the host
    op,               \* the function called by the user ("idle" before the call)
    pc,               \* position inside that function
    calls,            \* every HTTP request issued so far, with its response status
    status,           \* status code of the last response (0: none yet)
    outcome,          \* "none" | "returned" | "raised"
    exc,              \* class of the exception raised ("" when none)
    retval,           \* value returned (see NoValue)
    printed,          \* messages written by print()
    arg_local,        \* local path argument of the call
    arg_path,         \* folder path / key / prefix argument of the call, as given
    folder_path,      \* folder_path after "Ensure folder path ends with /"
    local_dir_path,   \* upload_directory: local_dir_path
    gcs_base_path,    \* upload_directory: gcs_base_path after line 164
    responses,        \* upload_directory: responses
    stack,            \* os.walk: directories still to be yielded, next first
    root,             \* os.walk: directory of the current triple
    dirs,             \* sub-directory names of the current triple not yet handled
    files,            \* file names of the current triple not yet handled
    objects,          \* delete_folder: objects (the listing)
    di,               \* delete_folder: number of objects already handled
    results,          \* delete_folder: results
    path_mapping,     \* upload_files_and_directories: path_mapping
    mi,               \* upload_files_and_directories: entries already handled
    batch_responses   \* upload_files_and_directories: responses

envVars == <<fs, sep>>
ctlVars == <<op, pc, calls, status, outcome, exc, retval, printed>>
argVars == <<arg_local, arg_path, folder_path>>
walkVars == <<local_dir_path, gcs_base_path, responses, stack, root, dirs, files>>
delVars == <<objects, di, results>>
batchVars == <<path_mapping, mi, batch_responses>>
vars == <<envVars, ctlVars, argVars, walkVars, delVars, batchVars>>

(***************************************************************************)
(* Bounds of the model.                                                    *)
(***************************************************************************)
MaxDepth == 2      \* depth of the chain of nested sub-directories r/s/s/...
MaxLen == 3        \* length of the folder paths given to the folder functions
MaxObjects == 3    \* number of objects a listing returns
MaxMapping == 2    \* number of entries of a path mapping

(***************************************************************************)
(* The local file system.                                                  *)
(***************************************************************************)
Slash == "/"
Backslash == "\\"
Seps == {Slash, Backslash}

Root == <<"r">>
Chain(k) == [i \in 1..(k + 1) |-> IF i = 1 THEN "r" ELSE "s"]
Sibling == <<"r", "t">>
Missing == <<"z">>

DirSets ==
    { {Chain(k) : k \in 0..d} \cup (IF t THEN {Sibling} ELSE {}) :
        d \in 0..MaxDepth, t \in BOOLEAN }

\* a file "a" in any directory, and a second file in the root of a tree without
\* nested sub-directories
FileCandidates(ds) ==
    {d \o <<"a">> : d \in ds} \cup (IF Chain(1) \in ds THEN {} ELSE {Root \o <<"b">>})

Trees ==
    UNION { {[dirs |-> ds, files |-> F] : F \in SUBSET FileCandidates(ds)} :
              ds \in DirSets }

IsFile(p) == p \in fs.files
IsDir(p) == p \in fs.dirs

Parent(p) == SubSeq(p, 1, Len(p) - 1)
SubdirNames(d) == {x[Len(x)] : x \in {y \in fs.dirs : Len(y) = Len(d) + 1 /\ Parent(y) = d}}
FileNames(d) == {x[Len(x)] : x \in {y \in fs.files : Len(y) = Len(d) + 1 /\ Parent(y) = d}}

\* every order in which the host may list the names of a directory
Listings(S) ==
    {f \in [1..Cardinality(S) -> S] : \A x \in S : \E i \in DOMAIN f : f[i] = x}

RECURSIVE JoinWith(_, _)
JoinWith(names, s) ==
    IF Len(names) = 0 THEN <<>>
    ELSE IF Len(names) = 1 THEN names
    ELSE <<names[1], s>> \o JoinWith(Tail(names), s)

\* os.path.relpath(root, local_dir_path) for a root under local_dir_path
RelPath(r, top) ==
    IF r = top THEN <<".">>
    ELSE JoinWith(SubSeq(r, Len(top) + 1, Len(r)), sep)

(***************************************************************************)
(* Strings handed to the folder functions, and the store's responses.      *)
(***************************************************************************)
Chars == {"d", Slash}
RECURSIVE StringsOfLen(_)
StringsOfLen(n) ==
    IF n = 0 THEN {<<>>}
    ELSE {Append(s, c) : s \in StringsOfLen(n - 1), c \in Chars}
FolderPaths == UNION {StringsOfLen(n) : n \in 0..MaxLen}
BasePaths == {<<>>, <<"d">>, <<"d", Slash>>}
Keys == {<<"k">>, <<"d", Slash, "k">>}

Statuses == {200, 201, 204, 500}
WalkStatuses == {200, 500}

EndsWith(p, c) == Len(p) > 0 /\ p[Len(p)] = c

NormalizeFolderMutAlways(p) == Append(p, Slash)
NormalizeFolder(p) == IF ~EndsWith(p, Slash) THEN Append(p, Slash) ELSE p

NormalizeBasePath(p) == IF p # <<>> /\ ~EndsWith(p, Slash) THEN Append(p, Slash) ELSE p

CreateOkMutAny(st) == TRUE
CreateOk(st) == st \in {200, 201}
UploadOk(st) == st \in {200, 201}
DeleteOkMut200(st) == st = 200
DeleteOk(st) == st \in {200, 204}
ListOk(st) == st = 200

NoValue == [list |-> <<>>, flag |-> FALSE, successful |-> 0, failed |-> 0]
Descriptor(key) == [name |-> key]
Http(kind, name, st, local) == [kind |-> kind, name |-> name, status |-> st, local |-> local]

(***************************************************************************)
(* The functions that issue one request.  Each yields the request sent, if *)
(* any, and either the value returned (a list of zero or one descriptors)  *)
(* or the exception raised.                                                *)
(***************************************************************************)
CreateFolder(p, st, local) ==
    LET fp == NormalizeFolder(p)
        call == Http("create", fp, st, local)
    IN  IF CreateOk(st)
        THEN [raised |-> FALSE, exc |-> "", sent |-> <<call>>, value |-> <<Descriptor(fp)>>]
        ELSE [raised |-> TRUE, exc |-> "Exception", sent |-> <<call>>, value |-> <<>>]

UploadFilePreconditionMutExists(local) == local \in fs.files \cup fs.dirs
UploadFilePrecondition(local) == IsFile(local)

UploadFile(local, key, st) ==
    LET call == Http("upload", key, st, local)
    IN  IF ~UploadFilePrecondition(local)
        THEN [raised |-> TRUE, exc |-> "FileNotFoundError", sent |-> <<>>, value |-> <<>>]
        ELSE IF UploadOk(st)
        THEN [raised |-> FALSE, exc |-> "", sent |-> <<call>>, value |-> <<Descriptor(key)>>]
        ELSE [raised |-> TRUE, exc |-> "Exception", sent |-> <<call>>, value |-> <<>>]

DeleteFile(key, st) ==
    [sent |-> <<Http("delete", key, st, <<>>)>>, flag |-> DeleteOk(st)]

\* list_bucket_contents: the listing is the store's answer
ListBucketContents(prefix, st, items) ==
    LET call == Http("list", prefix, st, <<>>)
    IN  IF ListOk(st)
        THEN [raised |-> FALSE, exc |-> "", sent |-> <<call>>, items |-> items]
        ELSE [raised |-> TRUE, exc |-> "Exception", sent |-> <<call>>, items |-> <<>>]

\* the keys a listing under prefix may return: prefix, prefix+"a", prefix+"aa", ...
ObjectKey(prefix, i) == prefix \o [j \in 1..(i - 1) |-> "a"]
ListingsOf(prefix) ==
    {[i \in 1..n |-> Descriptor(ObjectKey(prefix, i))] : n \in 0..MaxObjects}

Init ==
    /\ fs \in Trees
    /\ sep \in Seps
    /\ op = "idle" /\ pc = "idle"
    /\ calls = <<>> /\ status = 0
    /\ outcome = "none" /\ exc = "" /\ retval = NoValue /\ printed = <<>>
    /\ arg_local = <<>> /\ arg_path = <<>> /\ folder_path = <<>>
    /\ local_dir_path = <<>> /\ gcs_base_path = <<>> /\ responses = <<>>
    /\ stack = <<>> /\ root = <<>> /\ dirs = <<>> /\ files = <<>>
    /\ objects = <<>> /\ di = 0 /\ results = [successful |-> 0, failed |-> 0]
    /\ path_mapping = <<>> /\ mi = 0 /\ batch_responses = <<>>

LocalPaths == {Root, Root \o <<"a">>, Sibling, Missing}

(***************************************************************************)
(* The singular operations: one action each.                               *)
(***************************************************************************)
Finish(r, st) ==
    /\ pc' = "done"
    /\ calls' = calls \o r.sent
    /\ status' = IF r.sent = <<>> THEN status ELSE st
    /\ outcome' = IF r.raised THEN "raised" ELSE "returned"
    /\ exc' = r.exc

create_folder ==
    /\ op = "idle"
    /\ \E p \in FolderPaths, st \in Statuses :
         LET r == CreateFolder(p, st, <<>>) IN
         /\ op' = "create_folder"
         /\ arg_path' = p /\ folder_path' = NormalizeFolder(p)
         /\ Finish(r, st)
         /\ retval' = [NoValue EXCEPT !.list = r.value]
    /\ UNCHANGED <<envVars, printed, arg_local, walkVars, delVars, batchVars>>

upload_file ==
    /\ op = "idle"
    /\ \E local \in LocalPaths, key \in Keys, st \in Statuses :
         LET r == UploadFile(local, key, st) IN
         /\ op' = "upload_file"
         /\ arg_local' = local /\ arg_path' = key
         /\ Finish(r, st)
         /\ retval' = [NoValue EXCEPT !.list = r.value]
    /\ UNCHANGED <<envVars, printed, folder_path, walkVars, delVars, batchVars>>

delete_file ==
    /\ op = "idle"
    /\ \E key \in Keys, st \in Statuses :
         LET r == DeleteFile(key, st) IN
         /\ op' = "delete_file"
         /\ arg_path' = key
         /\ pc' = "done"
         /\ calls' = calls \o r.sent
         /\ status' = st
         /\ outcome' = "returned" /\ exc' = ""
         /\ retval' = [NoValue EXCEPT !.flag = r.flag]
    /\ UNCHANGED <<envVars, printed, arg_local, folder_path, walkVars, delVars, batchVars>>

list_folder_contents ==
    /\ op = "idle"
    /\ \E p \in FolderPaths, st \in Statuses :
         \E items \in ListingsOf(NormalizeFolder(p)) :
           LET r == ListBucketContents(NormalizeFolder(p), st, items) IN
           /\ op' = "list_folder_contents"
           /\ arg_path' = p /\ folder_path' = NormalizeFolder(p)
           /\ Finish(r, st)
           /\ retval' = [NoValue EXCEPT !.list = r.items]
    /\ UNCHANGED <<envVars, printed, arg_local, walkVars, delVars, batchVars>>

(***************************************************************************)
(* delete_folder: the listing, then one delete request per listed object.  *)
(***************************************************************************)
DeletePaths == {<<"d">>, <<"d", Slash>>, <<"d", Slash, Slash>>}
DeleteStatuses == {200, 204, 500}

delete_folder ==
    /\ op = "idle"
    /\ \E p \in DeletePaths, st \in Statuses :
         \E items \in ListingsOf(NormalizeFolder(p)) :
           LET r == ListBucketContents(NormalizeFolder(p), st, items) IN
           /\ op' = "delete_folder"
           /\ arg_path' = p /\ folder_path' = NormalizeFolder(p)
           /\ calls' = calls \o r.sent
           /\ status' = st
           /\ IF r.raised
              THEN /\ pc' = "done" /\ outcome' = "raised" /\ exc' = r.exc
                   /\ UNCHANGED delVars
              ELSE /\ pc' = "delete_loop" /\ UNCHANGED <<outcome, exc>>
                   /\ objects' = r.items /\ di' = 0
                   /\ results' = [successful |-> 0, failed |-> 0]
    /\ UNCHANGED <<envVars, retval, printed, arg_local, walkVars, batchVars>>

CountDeletion(res, flag) ==
    IF flag THEN [res EXCEPT !.successful = @ + 1]
    ELSE [res EXCEPT !.failed = @ + 1]

delete_next ==
    /\ pc = "delete_loop" /\ di < Len(objects)
    /\ \E st \in DeleteStatuses :
         LET name == objects[di + 1].name
             r == DeleteFile(name, st)
         IN  /\ calls' = calls \o r.sent
             /\ status' = st
             /\ results' = CountDeletion(results, r.flag)
             /\ di' = di + 1
    /\ UNCHANGED <<envVars, op, pc, outcome, exc, retval, printed, argVars,
                   walkVars, objects, batchVars>>

delete_folder_return ==
    /\ pc = "delete_loop" /\ di = Len(objects)
    /\ pc' = "done" /\ outcome' = "returned"
    /\ retval' = [NoValue EXCEPT !.successful = results.successful,
                                 !.failed = results.failed]
    /\ UNCHANGED <<envVars, op, calls, status, exc, printed, argVars, walkVars,
                   delVars, batchVars>>

(***************************************************************************)
(* upload_directory.                                                       *)
(***************************************************************************)
UploadDirectoryPrecondition(local) == IsDir(local)

BaseGivenMutNever(b) == FALSE
BaseGiven(b) == b # <<>>

\* "except Exception": every exception class raised here derives from Exception
ExceptExceptionMutNarrow(e) == e = "FileNotFoundError"
ExceptException(e) == e \in {"Exception", "FileNotFoundError", "NotADirectoryError"}

Propagates(r) == r.raised /\ ~ExceptException(r.exc)

\* try: responses.append(<call>)  except Exception: pass / print
AppendResponseMutAlways(resp, r) ==
    resp \o [i \in 1..Len(r.sent) |-> Descriptor(r.sent[i].name)]
AppendResponse(resp, r) == IF r.raised THEN resp ELSE resp \o r.value

\* lines 159-174, entered from the user's call or from the batch
EnterUploadDirectory(local, base, st) ==
    IF ~UploadDirectoryPrecondition(local)
    THEN /\ pc' = "done" /\ outcome' = "raised" /\ exc' = "NotADirectoryError"
         /\ UNCHANGED <<calls, status, walkVars>>
    ELSE LET b == NormalizeBasePath(base)
             r == CreateFolder(b, st, local)
             made == BaseGiven(b)
         IN  /\ local_dir_path' = local
             /\ gcs_base_path' = b
             /\ calls' = IF made THEN calls \o r.sent ELSE calls
             /\ status' = IF made THEN st ELSE status
             /\ responses' = IF made THEN AppendResponse(<<>>, r) ELSE <<>>
             /\ pc' = IF made /\ Propagates(r) THEN "done" ELSE "walk"
             /\ outcome' = IF made /\ Propagates(r) THEN "raised" ELSE outcome
             /\ exc' = IF made /\ Propagates(r) THEN r.exc ELSE exc
             /\ stack' = <<local>>
             /\ root' = <<>> /\ dirs' = <<>> /\ files' = <<>>

upload_directory ==
    /\ op = "idle"
    /\ \E local \in LocalPaths, base \in BasePaths, st \in WalkStatuses :
         /\ op' = "upload_directory"
         /\ arg_local' = local /\ arg_path' = base
         /\ EnterUploadDirectory(local, base, st)
    /\ UNCHANGED <<envVars, retval, printed, folder_path, delVars, batchVars>>

\* os.walk yields the next (root, dirs, files), top-down
os_walk_next ==
    /\ pc = "walk" /\ dirs = <<>> /\ files = <<>> /\ stack # <<>>
    /\ LET r == Head(stack) IN
       \E ds \in Listings(SubdirNames(r)), fl \in Listings(FileNames(r)) :
         /\ root' = r
         /\ dirs' = ds
         /\ files' = fl
         /\ stack' = [i \in 1..Len(ds) |-> r \o <<ds[i]>>] \o Tail(stack)
    /\ UNCHANGED <<envVars, ctlVars, argVars, local_dir_path, gcs_base_path,
                   responses, delVars, batchVars>>

\* lines 179-181
WalkRelPath ==
    LET rel_path == RelPath(root, local_dir_path)
    IN  IF rel_path = <<".">> THEN <<>> ELSE rel_path

\* lines 185-188 and 200-203, without the trailing "/" of a folder
GcsPath(rel_path, name) ==
    IF rel_path # <<>> THEN gcs_base_path \o rel_path \o <<Slash, name>>
    ELSE gcs_base_path \o <<name>>

WalkCall(r, st) ==
    /\ calls' = calls \o r.sent
    /\ status' = IF r.sent = <<>> THEN status ELSE st
    /\ responses' = AppendResponse(responses, r)
    /\ pc' = IF Propagates(r) THEN "done" ELSE pc
    /\ outcome' = IF Propagates(r) THEN "raised" ELSE outcome
    /\ exc' = IF Propagates(r) THEN r.exc ELSE exc

create_subfolder ==
    /\ pc = "walk" /\ dirs # <<>>
    /\ \E st \in WalkStatuses :
         LET dir_name == Head(dirs)
             gcs_folder_path == Append(GcsPath(WalkRelPath, dir_name), Slash)
             r == CreateFolder(gcs_folder_path, st, Append(root, dir_name))
         IN  /\ WalkCall(r, st)
             /\ dirs' = Tail(dirs)
    /\ UNCHANGED <<envVars, op, retval, printed, argVars, local_dir_path,
                   gcs_base_path, stack, root, files, delVars, batchVars>>

upload_walk_file ==
    /\ pc = "walk" /\ dirs = <<>> /\ files # <<>>
    /\ \E st \in WalkStatuses :
         LET file_name == Head(files)
             local_file_path == Append(root, file_name)
             gcs_file_path == GcsPath(WalkRelPath, file_name)
             r == UploadFile(local_file_path, gcs_file_path, st)
         IN  /\ WalkCall(r, st)
             /\ printed' = IF r.raised /\ ~Propagates(r)
                           THEN Append(printed, "Failed to upload") ELSE printed
             /\ files' = Tail(files)
    /\ UNCHANGED <<envVars, op, retval, argVars, local_dir_path, gcs_base_path,
                   stack, root, dirs, delVars, batchVars>>

upload_directory_return ==
    /\ pc = "walk" /\ dirs = <<>> /\ files = <<>> /\ stack = <<>>
    /\ IF op = "upload_directory"
       THEN /\ pc' = "done" /\ outcome' = "returned"
            /\ retval' = [NoValue EXCEPT !.list = responses]
            /\ UNCHANGED batchVars
       ELSE /\ pc' = "batch_loop"
            /\ batch_responses' = batch_responses \o responses
            /\ mi' = mi + 1
            /\ UNCHANGED <<outcome, retval, path_mapping>>
    /\ UNCHANGED <<envVars, op, calls, status, exc, printed, argVars, walkVars, delVars>>

(***************************************************************************)
(* upload_files_and_directories.                                           *)
(***************************************************************************)
Entries ==
    { [local_path |-> Root \o <<"a">>, gcs_path |-> <<"k">>],
      [local_path |-> Sibling, gcs_path |-> <<"d">>],
      [local_path |-> Missing, gcs_path |-> <<"m">>],
      [local_path |-> <<>>, gcs_path |-> <<"e">>] }
Mappings == UNION {[1..n -> Entries] : n \in 0..MaxMapping}

BatchDispatchMutStrict(mapping) ==
    IF mapping.local_path = <<>> \/ mapping.gcs_path = <<>> THEN "continue"
    ELSE IF IsDir(mapping.local_path) THEN "dir"
    ELSE "file"
BatchDispatch(mapping) ==
    IF mapping.local_path = <<>> \/ mapping.gcs_path = <<>> THEN "continue"
    ELSE IF IsFile(mapping.local_path) THEN "file"
    ELSE IF IsDir(mapping.local_path) THEN "dir"
    ELSE "not_found"

upload_files_and_directories ==
    /\ op = "idle"
    /\ \E m \in Mappings :
         /\ op' = "batch" /\ pc' = "batch_loop"
         /\ path_mapping' = m /\ mi' = 0 /\ batch_responses' = <<>>
    /\ UNCHANGED <<envVars, calls, status, outcome, exc, retval, printed, argVars,
                   walkVars, delVars>>

batch_entry ==
    /\ pc = "batch_loop" /\ mi < Len(path_mapping)
    /\ LET mapping == path_mapping[mi + 1]
           local_path == mapping.local_path
           gcs_path == mapping.gcs_path
           how == BatchDispatch(mapping)
       IN  \E st \in WalkStatuses :
           \/ /\ how = "continue"
              /\ mi' = mi + 1
              /\ UNCHANGED <<pc, calls, status, outcome, exc, printed, walkVars,
                             batch_responses>>
           \/ /\ how = "file"
              /\ LET r == UploadFile(local_path, gcs_path, st) IN
                 /\ calls' = calls \o r.sent
                 /\ status' = IF r.sent = <<>> THEN status ELSE st
                 /\ IF r.raised
                    THEN /\ pc' = "done" /\ outcome' = "raised" /\ exc' = r.exc
                         /\ UNCHANGED <<mi, batch_responses>>
                    ELSE /\ batch_responses' = batch_responses \o r.value
                         /\ mi' = mi + 1
                         /\ UNCHANGED <<pc, outcome, exc>>
              /\ UNCHANGED <<printed, walkVars>>
           \/ /\ how = "dir"
              /\ EnterUploadDirectory(local_path, gcs_path, st)
              /\ UNCHANGED <<printed, mi, batch_responses>>
           \/ /\ how = "not_found"
              /\ printed' = Append(printed, "Path not found")
              /\ mi' = mi + 1
              /\ UNCHANGED <<pc, calls, status, outcome, exc, walkVars, batch_responses>>
    /\ UNCHANGED <<envVars, op, retval, argVars, delVars, path_mapping>>

batch_return ==
    /\ pc = "batch_loop" /\ mi = Len(path_mapping)
    /\ pc' = "done" /\ outcome' = "returned"
    /\ retval' = [NoValue EXCEPT !.list = batch_responses]
    /\ UNCHANGED <<envVars, op, calls, status, exc, printed, argVars, walkVars,
                   delVars, batchVars>>

Next ==
    \/ create_folder
    \/ upload_file
    \/ delete_file
    \/ list_folder_contents
    \/ delete_folder
    \/ delete_next
    \/ delete_folder_return
    \/ upload_directory
    \/ os_walk_next
    \/ create_subfolder
    \/ upload_walk_file
    \/ upload_directory_return
    \/ upload_files_and_directories
    \/ batch_entry
    \/ batch_return

Spec == Init /\ [][Next]_vars

(***************************************************************************)
(* Properties.                                                             *)
(***************************************************************************)
Under(p, top) == Len(p) >= Len(top) /\ SubSeq(p, 1, Len(top)) = top
DirsUnder(top) == {d \in fs.dirs : Under(d, top)}
FilesUnder(top) == {f \in fs.files : Under(f, top)}
CallsOf(kind) == {i \in DOMAIN calls : calls[i].kind = kind}
Failed(i) == calls[i].status \notin {200, 201}

\* C1: upload_file with a local path that is not a regular file raises the
\* precondition error (FileNotFoundError) and no HTTP request has been issued.
C1_MissingFileRaisesBeforeAnyCall ==
    (op = "upload_file" /\ pc = "done" /\ arg_local \notin fs.files) =>
        (outcome = "raised" /\ exc = "FileNotFoundError" /\ calls = <<>> /\ status = 0)

C1_Witness ==
    /\ op = "upload_file" /\ pc = "done"
    /\ arg_local = Missing
    /\ outcome = "raised" /\ calls = <<>>

\* C2: upload_directory on a local directory never raises, whichever marker
\* creations and file uploads fail; when it is done it has returned and every
\* sub-directory, every file (and the root when a prefix is given) has had its
\* request issued.
C2_BestEffort ==
    (op = "upload_directory" /\ arg_local \in fs.dirs) =>
        /\ outcome # "raised"
        /\ pc = "done" =>
             /\ outcome = "returned"
             /\ \A d \in DirsUnder(arg_local) :
                  (d # arg_local \/ arg_path # <<>>) =>
                      \E i \in CallsOf("create") : calls[i].local = d
             /\ \A f \in FilesUnder(arg_local) :
                  \E i \in CallsOf("upload") : calls[i].local = f

C2_Witness ==
    /\ op = "upload_directory" /\ pc = "done" /\ outcome = "returned"
    /\ Len(calls) >= 4
    /\ Failed(1)
    /\ \E i \in CallsOf("upload") : Failed(i) /\ i < Len(calls)
    /\ \E i \in CallsOf("create") : i > 1 /\ Failed(i)

\* C3: upload_directory with a non-empty prefix issues exactly one upload per
\* file, with key = normalized prefix + the slash-joined relative path, exactly
\* one folder-marker request per directory (the root at the prefix, a
\* sub-directory at prefix + relative path + "/"), and no other request.
C3_ExactKeys ==
    (op = "upload_directory" /\ pc = "done" /\ outcome = "returned" /\ arg_path # <<>>) =>
        LET prefix == IF EndsWith(arg_path, Slash) THEN arg_path ELSE Append(arg_path, Slash)
            rel(p) == JoinWith(SubSeq(p, Len(arg_local) + 1, Len(p)), Slash)
            FileKey(f) == prefix \o rel(f)
            MarkerKey(d) == IF d = arg_local THEN prefix ELSE Append(prefix \o rel(d), Slash)
        IN  /\ Len(calls) = Cardinality(DirsUnder(arg_local)) + Cardinality(FilesUnder(arg_local))
            /\ \A f \in FilesUnder(arg_local) :
                 \E i \in CallsOf("upload") : calls[i].name = FileKey(f)
            /\ \A d \in DirsUnder(arg_local) :
                 \E i \in CallsOf("create") : calls[i].name = MarkerKey(d)

\* C4: delete_folder issues one delete request per listed key, in order; a
\* failing delete does not end the loop; on return successful + failed is the
\* number of listed keys, successful counts the deletes answered 200/204 and
\* failed the others.
C4_DeleteFolderCounts ==
    op = "delete_folder" =>
        LET D == CallsOf("delete")
            ok == {i \in D : calls[i].status \in {200, 204}}
        IN  /\ pc = "delete_loop" => (outcome = "none" /\ Cardinality(D) = di)
            /\ (pc = "done" /\ outcome = "returned") =>
                 /\ Cardinality(D) = Len(objects)
                 /\ \A k \in DOMAIN objects :
                      calls[k + 1].kind = "delete" /\ calls[k + 1].name = objects[k].name
                 /\ retval.successful + retval.failed = Len(objects)
                 /\ retval.successful = Cardinality(ok)
                 /\ retval.failed = Cardinality(D \ ok)

C4_Witness ==
    /\ op = "delete_folder" /\ pc = "done" /\ outcome = "returned"
    /\ Len(objects) = 3
    /\ calls[2].status = 500
    /\ retval.successful = 2 /\ retval.failed = 1

ValidEntry(e) == e.local_path \in fs.files /\ e.gcs_path # <<>>
MissingEntry(e) ==
    /\ e.local_path # <<>> /\ e.gcs_path # <<>>
    /\ e.local_path \notin fs.files \cup fs.dirs
ValidAndMissing(v, m) ==
    /\ Len(path_mapping) = 2 /\ {v, m} = {1, 2}
    /\ ValidEntry(path_mapping[v]) /\ MissingEntry(path_mapping[m])

\* C5: for a mapping of one valid file entry and one entry whose local path
\* does not exist, in either order, no request is ever issued for the missing
\* entry and it raises nothing; the only request is the upload of the valid
\* entry, and when the store accepts it the function returns the one result.
C5_SkipsMissing ==
    \A v, m \in 1..2 :
        (op = "batch" /\ ValidAndMissing(v, m)) =>
            /\ \A i \in DOMAIN calls :
                 /\ calls[i].local = path_mapping[v].local_path
                 /\ calls[i].name = path_mapping[v].gcs_path
                 /\ calls[i].kind = "upload"
            /\ exc # "FileNotFoundError"
            /\ (mi >= m /\ calls = <<>>) => outcome # "raised"
            /\ pc = "done" =>
                 /\ Len(calls) = 1
                 /\ calls[1].status \in {200, 201} =>
                      /\ outcome = "returned"
                      /\ retval.list = <<[name |-> path_mapping[v].gcs_path]>>
                      /\ printed = <<"Path not found">>

C5_Witness ==
    /\ op = "batch" /\ pc = "done" /\ outcome = "returned"
    /\ ValidAndMissing(2, 1)
    /\ path_mapping[1].local_path = Missing
    /\ Len(calls) = 1 /\ Len(retval.list) = 1

\* C6: in upload_files_and_directories a failed upload of one entry does not
\* stop the batch: the function ends by returning, with every entry handled.
C6_BatchNeverRaises ==
    (op = "batch" /\ pc = "done") =>
        (outcome = "returned" /\ mi = Len(path_mapping))

ExactlyOneSlash(p) == EndsWith(p, Slash) /\ ~(Len(p) >= 2 /\ p[Len(p) - 1] = Slash)
FolderOps == {"create_folder", "list_folder_contents", "delete_folder"}
Walking == op = "upload_directory" /\ arg_local \in fs.dirs

Normalized(given, p, again) ==
    /\ p = (IF EndsWith(given, Slash) THEN given ELSE Append(given, Slash))
    /\ EndsWith(p, Slash)
    /\ ~(Len(given) >= 2 /\ given[Len(given)] = Slash /\ given[Len(given) - 1] = Slash)
         => ExactlyOneSlash(p)
    /\ again = p

C8_ErrorsPropagate ==
    /\ (op \in {"upload_file", "create_folder"} /\ pc = "done"
            /\ (calls = <<>> \/ status \notin {200, 201})) => outcome = "raised"
    /\ (op = "delete_file" /\ pc = "done" /\ status \notin {200, 204}) =>
            outcome = "raised"

\* C8 amended: on upload_file and create_folder a non-success status ends the
\* call in an error, and so does upload_file's failed local-path precondition;
\* delete_file never raises on a status: it returns False on a non-success
\* status and True on 200/204.
C8_ErrorsPropagateExceptDelete ==
    /\ (op \in {"upload_file", "create_folder"} /\ pc = "done") =>
         /\ (calls = <<>> \/ status \notin {200, 201}) => outcome = "raised"
         /\ (calls # <<>> /\ status \in {200, 201}) => outcome = "returned"
         /\ op = "create_folder" => Len(calls) = 1
    /\ (op = "delete_file" /\ pc = "done") =>
         /\ outcome = "returned" /\ Len(calls) = 1
         /\ retval.flag = (status \in {200, 204})

C8_Witness ==
    /\ op = "delete_file" /\ pc = "done"
    /\ status = 500
    /\ outcome = "returned" /\ retval.flag = FALSE

\* C9: in upload_directory with a non-empty prefix, the upload request of a
\* file comes after the folder-marker request of the directory that holds it.
C9_MarkerBeforeFiles ==
    (op = "upload_directory" /\ arg_path # <<>>) =>
        \A j \in CallsOf("upload") :
            \E i \in CallsOf("create") : i < j /\ calls[i].local = Parent(calls[j].local)

C9_Witness ==
    /\ op = "upload_directory" /\ pc = "done" /\ arg_path # <<>>
    /\ \E j \in CallsOf("upload") : calls[j].local = Chain(2) \o <<"a">>
    /\ \E j \in CallsOf("upload") : calls[j].local = Root \o <<"a">>
    /\ \E j \in CallsOf("upload") : calls[j].local = Sibling \o <<"a">>

RECURSIVE SuccessDescriptors(_)
SuccessDescriptors(cs) ==
    IF cs = <<>> THEN <<>>
    ELSE (IF Head(cs).status \in {200, 201} THEN <<[name |-> Head(cs).name]>> ELSE <<>>)
            \o SuccessDescriptors(Tail(cs))

\* C10: throughout upload_directory the result list holds one descriptor per
\* request that succeeded, in the order of the requests, and nothing for a
\* request that failed; the list returned is that list.
C10_ResponsesAreSuccesses ==
    op = "upload_directory" =>
        /\ responses = SuccessDescriptors(calls)
        /\ Len(responses) = Cardinality({i \in DOMAIN calls : ~Failed(i)})
        /\ outcome = "returned" => retval.list = responses

C10_Witness ==
    /\ op = "upload_directory" /\ outcome = "returned"
    /\ Len(calls) >= 4
    /\ Len(retval.list) = 2
    /\ ~Failed(2) /\ Failed(3)
====
